---------------------------- MODULE Spec2Model ----------------------------
(***************************************************************************)
(* A model of Mouse.js (src/mouse.js): the Mouse object, its listener      *)
(* table, its pressed-button set and the handlers it attaches to the       *)
(* document.  Every handler is one atomic action (JavaScript runs a        *)
(* handler, and every callback it invokes, to completion).                 *)
(*                                                                         *)
(* JavaScript values are modelled homogeneously:                           *)
(*   - a handler's or callback's argument is a record (MouseEvent,         *)
(*     BoolVal, UndefinedVal);                                             *)
(*   - the outcome of a call is one of "true", "false", "undefined"        *)
(*     (normal return without a value) and "threw" (a TypeError            *)
(*     propagated out of the call);                                        *)
(*   - an element reference is a string, with "null" and "undefined"       *)
(*     for the two empty values.                                           *)
(***************************************************************************)
EXTENDS Integers, Sequences, FiniteSets, TLC

(***************************************************************************)
(* Bounds of the model.                                                    *)
(***************************************************************************)
\* Button codes the platform delivers are 0..MaxCode; 5 and above have no name.
MaxCode == 5
\* Total number of registrations held in all listener lists together.
MaxSubs == 2
\* Total number of registrations a dispatch may leave behind (a callback that
\* subscribes during a dispatch makes the table grow without a call of on()
\* by the application).
MaxGrown == 3

Codes == 0..MaxCode

(***************************************************************************)
(* JavaScript values.                                                      *)
(***************************************************************************)
Undefined == "<undefined>"

\* The position fields of a MouseEvent (all 0 where the model does not use them).
Position(pageX, pageY, movementX, movementY, clientX, clientY) ==
    [pageX |-> pageX, pageY |-> pageY, movementX |-> movementX,
     movementY |-> movementY, clientX |-> clientX, clientY |-> clientY]
NoPosition == Position(0, 0, 0, 0, 0, 0)

MouseEvent(type, button) ==
    [type |-> type, button |-> button, kind |-> "MouseEvent", bool |-> FALSE,
     at |-> NoPosition]
MoveEvent(pos) ==
    [type |-> "mousemove", button |-> 0, kind |-> "MouseEvent", bool |-> FALSE,
     at |-> pos]
BoolVal(b) ==
    [type |-> "", button |-> 0, kind |-> "boolean", bool |-> b, at |-> NoPosition]
UndefinedVal ==
    [type |-> "", button |-> 0, kind |-> "undefined", bool |-> FALSE,
     at |-> NoPosition]

\* Values the lookups take and return: a number, a string, undefined, or a
\* function object (what a plain object inherits under "constructor").
Num(n) == [kind |-> "number", num |-> n, str |-> ""]
Str(x) == [kind |-> "string", num |-> 0, str |-> x]
NoValue == [kind |-> "undefined", num |-> 0, str |-> ""]
FunctionValue == [kind |-> "function", num |-> 0, str |-> ""]

\* `${v}` in a template literal: undefined prints as the word "undefined".
Template(v) == IF v = Undefined THEN "undefined" ELSE v

\* Property names every plain object inherits from Object.prototype (their
\* values are functions, not arrays).  "__proto__" is left out of the inputs.
ObjectPrototypeKeys == {"constructor", "toString"}

\* key in obj
HasProperty(obj, key) == key \in DOMAIN obj \/ key \in ObjectPrototypeKeys

\* The console.warn / console.log messages.
EventNotFound == "MouseError: Event not found!"
CallbackNotFound == "MouseError: Callback not found!"
TargetUndefined == "MouseError: Target is undefined!"
InvalidButton == "MouseError: Invalid button!"

(***************************************************************************)
(* The button table and its two lookups.                                   *)
(***************************************************************************)
buttonCodes == [left |-> 0, middle |-> 1, right |-> 2, back |-> 3, next |-> 4]

nameOf(code) ==
    IF \E k \in DOMAIN buttonCodes : buttonCodes[k] = code
    THEN CHOOSE k \in DOMAIN buttonCodes : buttonCodes[k] = code
    ELSE Undefined

\* The strings the application passes as button names: the five names in
\* several letter cases, and strings that are not button names.
ButtonNames ==
    {"left", "LEFT", "Left", "middle", "Middle", "right", "RIGHT", "back",
     "Back", "next", "NeXt"}
OtherStrings == {"up", "", "leftdown", "constructor", "CONSTRUCTOR", "toString"}
NameInputs == ButtonNames \cup OtherStrings

\* String.prototype.toLowerCase on those strings.
ToLowerCase(x) ==
    CASE x \in {"LEFT", "Left"}  -> "left"
      [] x = "Middle"            -> "middle"
      [] x = "RIGHT"             -> "right"
      [] x = "Back"              -> "back"
      [] x = "NeXt"              -> "next"
      [] x = "CONSTRUCTOR"       -> "constructor"
      [] x = "toString"          -> "tostring"
      [] OTHER                   -> x

\* buttonCodes[key]: an own property, a property inherited from
\* Object.prototype, or undefined.
Get(key) ==
    IF key \in DOMAIN buttonCodes THEN Num(buttonCodes[key])
    ELSE IF key \in ObjectPrototypeKeys THEN FunctionValue
    ELSE NoValue

codeOf(name) == Get(ToLowerCase(name))

\* nameOf applied to any value: === holds for no key unless it is a number.
nameOfValue(v) ==
    IF v.kind = "number" /\ nameOf(v.num) # Undefined THEN Str(nameOf(v.num))
    ELSE NoValue

\* pressed as it would be if it did not lower-case the name.
pressedCaseSensitive(btns, button) ==
    LET b == IF button.kind = "string" THEN Get(button.str) ELSE button
    IN [ret |-> b.kind = "number" /\ b.num \in btns,
        warn |-> IF b.kind = "undefined" THEN <<InvalidButton>>
                 ELSE <<>>]

\* pressed(button) on the pressed set btns: what it returns and what it
\* writes to the console.
pressed(btns, button) ==
    LET b == IF button.kind = "string" THEN Get(ToLowerCase(button.str)) ELSE button
    IN [ret |-> b.kind = "number" /\ b.num \in btns,
        warn |-> IF b.kind = "undefined" THEN <<InvalidButton>>
                 ELSE <<>>]

(***************************************************************************)
(* The listener table.                                                     *)
(***************************************************************************)
EventNames ==
    {"move", "anydown", "anyup", "unlock", "lock", "lockchange", "lockerror",
     "leftdown", "leftup", "rightdown", "rightup", "middledown", "middleup",
     "backdown", "backup", "nextdown", "nextup"}

\* this.events as constructed: every fixed name owns an empty array.
InitialEvents == [n \in EventNames |-> <<>>]

\* Callbacks the application may register.  "f" and "g" are plain functions.
\* The other three stand for closures over the event they are registered
\* for (one closure per event): "unsub" calls off(event, itself), "sub"
\* calls on(event, f), "clear" calls off(event, "all").
PlainCallbacks == {"f", "g"}
MutatingCallbacks == {"unsub", "sub", "clear"}
Callbacks == PlainCallbacks \cup MutatingCallbacks

\* Array.prototype.indexOf, 1-based; 0 when absent.
IndexOf(arr, x) ==
    IF \E i \in 1..Len(arr) : arr[i] = x
    THEN CHOOSE i \in 1..Len(arr) : arr[i] = x /\ \A j \in 1..(i - 1) : arr[j] # x
    ELSE 0

\* arr.splice(index): without a count, everything from index on goes.
SpliceToEnd(arr, index) == SubSeq(arr, 1, index - 1)

\* arr.splice(index, 1), index 1-based.
Splice(arr, index) ==
    [i \in 1..(Len(arr) - 1) |-> IF i < index THEN arr[i] ELSE arr[i + 1]]

\* on(event, callback): the new table, what the call returned and what it
\* wrote to the console.
on(evs, event, callback) ==
    IF HasProperty(evs, event)
    THEN IF event \in DOMAIN evs
         THEN [events |-> [evs EXCEPT ![event] = Append(@, callback)],
               ret |-> "true", warn |-> <<>>]
         \* an inherited property is a function: it has no push
         ELSE [events |-> evs, ret |-> "threw", warn |-> <<>>]
    ELSE [events |-> evs, ret |-> "false", warn |-> <<EventNotFound>>]

\* Every list emptied, as if the table were reset.
SetEveryEmpty(evs, event) == [n \in DOMAIN evs \cup {event} |-> <<>>]

\* self.events[event] = []
SetEmpty(evs, event) ==
    [n \in DOMAIN evs \cup {event} |-> IF n = event THEN <<>> ELSE evs[n]]

\* off(event, callback); callback may be the string "all".
off(evs, event, callback) ==
    IF callback = "all"
    THEN IF HasProperty(evs, event)
         THEN [events |-> SetEmpty(evs, event), ret |-> "true", warn |-> <<>>]
         ELSE [events |-> evs, ret |-> "false", warn |-> <<EventNotFound>>]
    ELSE IF HasProperty(evs, event)
         THEN IF event \in DOMAIN evs
              THEN LET index == IndexOf(evs[event], callback)
                   IN IF index = 0
                      THEN [events |-> evs, ret |-> "false",
                            warn |-> <<CallbackNotFound>>]
                      ELSE [events |-> [evs EXCEPT ![event] = Splice(@, index)],
                            ret |-> "true", warn |-> <<>>]
              \* an inherited property is a function: it has no indexOf
              ELSE [events |-> evs, ret |-> "threw", warn |-> <<>>]
         ELSE [events |-> evs, ret |-> "false", warn |-> <<EventNotFound>>]

\* What running callback c does to the table while `event` is dispatched.
RunCallback(c, event, evs) ==
    CASE c = "unsub" -> off(evs, event, c).events
      [] c = "sub"   -> on(evs, event, "f").events
      [] c = "clear" -> off(evs, event, "all").events
      [] OTHER       -> evs

\* What that call of callback c writes to the console.
CallbackWarns(c, event, evs) ==
    CASE c = "unsub" -> off(evs, event, c).warn
      [] c = "sub"   -> on(evs, event, "f").warn
      [] c = "clear" -> off(evs, event, "all").warn
      [] OTHER       -> <<>>

\* What the callbacks see of the Mouse while they run: this.buttons and the
\* coordinate fields.
Seen(btns, crd) == [buttons |-> btns, coords |-> crd]

\* Whether c replaces the array object held under `event` by a new one.
Replaces(c) == c = "clear"

\* Array.prototype.map over the array object O taken at the start of emit:
\* the length is read once, index k is visited iff it is still in O, and O
\* is the same object as events[event] (which push and splice change in
\* place) until an assignment replaces it (attached becomes FALSE).
RECURSIVE mapFrom(_, _, _, _, _, _, _, _, _)
mapFrom(O, attached, evs, event, k, len, params, btns, calls) ==
    IF k >= len
    THEN [events |-> evs, calls |-> calls]
    ELSE IF k >= Len(O)
         THEN mapFrom(O, attached, evs, event, k + 1, len, params, btns, calls)
         ELSE LET c == O[k + 1]
                  evs2 == RunCallback(c, event, evs)
                  att2 == attached /\ ~Replaces(c)
                  O2 == IF att2 THEN evs2[event] ELSE O
                  rec == [event |-> event, fn |-> c, arg |-> params,
                          buttons |-> btns.buttons, coords |-> btns.coords,
                          warn |-> CallbackWarns(c, event, evs)]
              IN mapFrom(O2, att2, evs2, event, k + 1, len, params, btns,
                         Append(calls, rec))

\* emit as it would be if it called f() instead of f(params).
emitWithoutParams(evs, event, params, btns) ==
    IF event \in DOMAIN evs
    THEN LET r == mapFrom(evs[event], TRUE, evs, event, 0, Len(evs[event]),
                          UndefinedVal, btns, <<>>)
         IN [events |-> r.events, calls |-> r.calls, threw |-> FALSE]
    ELSE [events |-> evs, calls |-> <<>>, threw |-> TRUE]

\* emit(event, params); btns is what the callbacks see of the Mouse (Seen).
emit(evs, event, params, btns) ==
    IF event \in DOMAIN evs
    THEN LET r == mapFrom(evs[event], TRUE, evs, event, 0, Len(evs[event]),
                          params, btns, <<>>)
         IN [events |-> r.events, calls |-> r.calls, threw |-> FALSE]
    \* undefined (or an inherited function) has no map
    ELSE [events |-> evs, calls |-> <<>>, threw |-> TRUE]

(***************************************************************************)
(* State.                                                                  *)
(***************************************************************************)
VARIABLES
    target,    \* this.target: an element, or "undefined"
    events,    \* this.events: own property name -> array of callbacks
    buttons,   \* this.buttons: the Set of pressed button codes
    locked,    \* the property mouse.locked of the README
    vendors,   \* platform: prefixes whose pointer-lock names exist on document
    captured,  \* platform: the element holding the pointer lock, or "null"
    call,      \* the last operation and its arguments
    result,    \* its outcome: "true", "false", "undefined" or "threw"
    calls,     \* the callback invocations it made, in order
    lastDown,  \* history: the codes whose most recent notification was a down
    coords,    \* the twelve coordinate fields docX .. targetPY
    view,      \* platform: Screen.width / height, target.clientWidth / Height
    entries,   \* platform: the capture entry points the target object has
    entry,     \* the capture entry point the last operation invoked
    diag,      \* what the last operation wrote to the console
    returned   \* the value the last lookup (codeOf, nameOf) returned

vars == <<target, events, buttons, locked, vendors, captured, call, result,
          calls, lastDown, coords, view, entries, entry, diag, returned>>

platformVars == <<vendors, captured>>

\* What the operations other than the movement handlers leave alone.
geometryVars == <<coords, view, entries>>

Elements == {"canvas", "other"}
Prefixes == {"", "moz", "webkit"}

Op(op, name, cb, e) ==
    [op |-> op, name |-> name, cb |-> cb, e |-> e, arg |-> NoValue]

\* A lookup called with the value v.
Lookup(op, v) == [Op(op, "", "", UndefinedVal) EXCEPT !.arg = v]

\* The number of registrations in the whole table.
RECURSIVE SumLen(_, _)
SumLen(evs, names) ==
    IF names = {} THEN 0
    ELSE LET n == CHOOSE x \in names : TRUE
         IN Len(evs[n]) + SumLen(evs, names \ {n})

Subs(evs) == SumLen(evs, DOMAIN evs)

\* A rational number in lowest terms with a positive denominator: the model
\* of the fractional values the normalised coordinates take.
RECURSIVE Gcd(_, _)
Gcd(a, b) == IF b = 0 THEN a ELSE Gcd(b, a % b)

Abs(a) == IF a < 0 THEN -a ELSE a

Rat(n, d) ==
    LET g == Gcd(Abs(n), Abs(d))
        sgn == IF d < 0 THEN -1 ELSE 1
    IN [num |-> (sgn * n) \div g, den |-> (sgn * d) \div g]

RatDiv(a, b) == Rat(a, b)
RatSub(x, y) == Rat(x.num * y.den - y.num * x.den, x.den * y.den)
RatMul(x, k) == Rat(x.num * k, x.den)
Half == Rat(1, 2)
Zero == Rat(0, 1)

\* (v / dim - 0.5) * 2
Normalise(v, dim) == RatMul(RatSub(RatDiv(v, dim), Half), 2)

\* The coordinate fields as the constructor sets them.
InitialCoords ==
    [docX |-> Zero, docY |-> Zero, docPX |-> 0, docPY |-> 0,
     docDX |-> Zero, docDY |-> Zero, docDPX |-> 0, docDPY |-> 0,
     targetX |-> Zero, targetY |-> Zero, targetPX |-> 0, targetPY |-> 0]

\* Screen and target sizes, in pixels.
View(w, h, tw, th) == [w |-> w, h |-> h, tw |-> tw, th |-> th]
Views == {View(1000, 500, 200, 100), View(4, 3, 2, 1)}

\* The capture entry points of the target object: the prefixes under which
\* it has a request method and those under which it has an exit method.
Entries(req, ex) == [request |-> req, exit |-> ex]
NoEntry == [on |-> "", fn |-> ""]

\* Every console message of the callbacks a dispatch invoked, in order.
RECURSIVE Warnings(_)
Warnings(cs) == IF cs = <<>> THEN <<>> ELSE Head(cs).warn \o Warnings(Tail(cs))

\* new Mouse(t) where the screen and the target have the sizes v and the
\* target object the entry points en.
ConstructOn(t, vs, v, en) ==
    /\ target = t
    /\ events = InitialEvents
    /\ buttons = {}
    /\ locked = UndefinedVal
    /\ vendors = vs
    /\ captured = "null"
    /\ call = Op("new", "", "", UndefinedVal)
    /\ result = "undefined"
    /\ calls = <<>>
    /\ lastDown = {}
    /\ coords = InitialCoords
    /\ view = v
    /\ entries = en
    /\ entry = NoEntry
    /\ diag = <<>>
    /\ returned = NoValue

\* new Mouse(t) on a platform with the given pointer-lock prefixes.
Construct(t, vs) ==
    ConstructOn(t, vs, View(1000, 500, 200, 100), Entries(vs, {}))

\* Any construction on any platform.
Init == \E t \in {"undefined", "canvas"}, vs \in SUBSET Prefixes : Construct(t, vs)

\* Any construction on a platform with the unprefixed pointer-lock names.
InitStandard == \E t \in {"undefined", "canvas"} : Construct(t, {""})

\* new Mouse() on such a platform.
InitPlain == Construct("undefined", {""})

(***************************************************************************)
(* Operations.                                                             *)
(***************************************************************************)
\* mouse.on(event, callback) called by the application.
CallOn(event, callback) ==
    /\ Subs(events) < MaxSubs
    /\ LET r == on(events, event, callback)
       IN /\ events' = r.events
          /\ result' = r.ret
          /\ diag' = r.warn
    /\ call' = Op("on", event, callback, UndefinedVal)
    /\ calls' = <<>>
    /\ UNCHANGED <<target, buttons, locked, platformVars, lastDown>>
    /\ entry' = NoEntry
    /\ returned' = NoValue
    /\ UNCHANGED geometryVars

\* mouse.off(event, callback) called by the application.
CallOff(event, callback) ==
    /\ LET r == off(events, event, callback)
       IN /\ events' = r.events
          /\ result' = r.ret
          /\ diag' = r.warn
    /\ call' = Op("off", event, callback, UndefinedVal)
    /\ calls' = <<>>
    /\ UNCHANGED <<target, buttons, locked, platformVars, lastDown>>
    /\ entry' = NoEntry
    /\ returned' = NoValue
    /\ UNCHANGED geometryVars

\* docDown as it would be if it fired anydown before the button's own event.
docDownAnyFirst(e) ==
    LET b == buttons \cup {e.button}
        r1 == emit(events, "anydown", e, Seen(b, coords))
        r2 == emit(r1.events, Template(nameOf(e.button)) \o "down", e, Seen(b, coords))
    IN /\ buttons' = b
       /\ events' = r2.events
       /\ calls' = r1.calls \o r2.calls
       /\ result' = IF r2.threw THEN "threw" ELSE "undefined"
       /\ call' = Op("mousedown", "", "", e)
       /\ lastDown' = lastDown \cup {e.button}
       /\ UNCHANGED <<target, locked, platformVars>>
       /\ diag' = Warnings(calls')
       /\ entry' = NoEntry
       /\ returned' = NoValue
       /\ UNCHANGED geometryVars

\* The document's mousedown listener.
docDown(e) ==
    LET b == buttons \cup {e.button}
        r1 == emit(events, Template(nameOf(e.button)) \o "down", e, Seen(b, coords))
        r2 == emit(r1.events, "anydown", e, Seen(b, coords))
    IN /\ buttons' = b
       /\ IF r1.threw
          THEN /\ events' = r1.events
               /\ calls' = r1.calls
               /\ result' = "threw"
          ELSE /\ events' = r2.events
               /\ calls' = r1.calls \o r2.calls
               /\ result' = IF r2.threw THEN "threw" ELSE "undefined"
       /\ call' = Op("mousedown", "", "", e)
       /\ lastDown' = lastDown \cup {e.button}
       /\ UNCHANGED <<target, locked, platformVars>>
       /\ diag' = Warnings(calls')
       /\ entry' = NoEntry
       /\ returned' = NoValue
       /\ UNCHANGED geometryVars

\* docUp as it would be if it updated the set after firing the events: a
\* TypeError out of emit then skips the update.
docUpDeleteLast(e) ==
    LET r1 == emit(events, Template(nameOf(e.button)) \o "up", e, Seen(buttons, coords))
        r2 == emit(r1.events, "anyup", e, Seen(buttons, coords))
    IN /\ IF r1.threw
          THEN /\ buttons' = buttons
               /\ events' = r1.events
               /\ calls' = r1.calls
               /\ result' = "threw"
          ELSE /\ buttons' = buttons \ {e.button}
               /\ events' = r2.events
               /\ calls' = r1.calls \o r2.calls
               /\ result' = "undefined"
       /\ call' = Op("mouseup", "", "", e)
       /\ lastDown' = lastDown \ {e.button}
       /\ UNCHANGED <<target, locked, platformVars>>
       /\ diag' = Warnings(calls')
       /\ entry' = NoEntry
       /\ returned' = NoValue
       /\ UNCHANGED geometryVars

\* The document's mouseup listener.
docUp(e) ==
    LET b == buttons \ {e.button}
        r1 == emit(events, Template(nameOf(e.button)) \o "up", e, Seen(b, coords))
        r2 == emit(r1.events, "anyup", e, Seen(b, coords))
    IN /\ buttons' = b
       /\ IF r1.threw
          THEN /\ events' = r1.events
               /\ calls' = r1.calls
               /\ result' = "threw"
          ELSE /\ events' = r2.events
               /\ calls' = r1.calls \o r2.calls
               /\ result' = IF r2.threw THEN "threw" ELSE "undefined"
       /\ call' = Op("mouseup", "", "", e)
       /\ lastDown' = lastDown \ {e.button}
       /\ UNCHANGED <<target, locked, platformVars>>
       /\ diag' = Warnings(calls')
       /\ entry' = NoEntry
       /\ returned' = NoValue
       /\ UNCHANGED geometryVars

\* document.<prefix>pointerLockElement: undefined where the platform lacks it.
PointerLockElement(prefix, vs, cap) == IF prefix \in vs THEN cap ELSE "undefined"

\* The state lockChange computes.
LockStateOf(t, vs, cap) ==
    \/ PointerLockElement("", vs, cap) = t
    \/ PointerLockElement("moz", vs, cap) = t
    \/ PointerLockElement("webkit", vs, cap) = t

\* lockChange as it would be if the lock / unlock choice were inverted.
lockChangeInverted(cap) ==
    LET state == LockStateOf(target, vendors, cap)
        r1 == emit(events, "lockchange", BoolVal(state), Seen(buttons, coords))
        r2 == emit(r1.events, IF state THEN "unlock" ELSE "lock", UndefinedVal,
                   Seen(buttons, coords))
    IN /\ vendors # {}
       /\ captured' = cap
       /\ events' = r2.events
       /\ calls' = r1.calls \o r2.calls
       /\ result' = "undefined"
       /\ call' = Op("lockchange", "", "", BoolVal(state))
       /\ UNCHANGED <<target, buttons, locked, vendors, lastDown>>
       /\ diag' = Warnings(calls')
       /\ entry' = NoEntry
       /\ returned' = NoValue
       /\ UNCHANGED geometryVars

\* The pointerlockchange listener; it is registered under the first of the
\* three names the document has, so it runs only where one exists.  The
\* platform has changed the capturing element to cap before it runs.
lockChange(cap) ==
    LET state == LockStateOf(target, vendors, cap)
        r1 == emit(events, "lockchange", BoolVal(state), Seen(buttons, coords))
        r2 == emit(r1.events, IF state THEN "lock" ELSE "unlock", UndefinedVal,
                   Seen(buttons, coords))
    IN /\ vendors # {}
       /\ captured' = cap
       /\ events' = r2.events
       /\ calls' = r1.calls \o r2.calls
       /\ result' = "undefined"
       /\ call' = Op("lockchange", "", "", BoolVal(state))
       /\ UNCHANGED <<target, buttons, locked, vendors, lastDown>>
       /\ diag' = Warnings(calls')
       /\ entry' = NoEntry
       /\ returned' = NoValue
       /\ UNCHANGED geometryVars

\* lockError as it would be if a capture error also released every button.
lockErrorReleasing ==
    LET r == emit(events, "lockerror", UndefinedVal, Seen({}, coords))
    IN /\ events' = r.events
       /\ calls' = r.calls
       /\ result' = "undefined"
       /\ call' = Op("lockerror", "", "", UndefinedVal)
       /\ buttons' = {}
       /\ UNCHANGED <<target, locked, platformVars, lastDown>>
       /\ diag' = Warnings(calls')
       /\ entry' = NoEntry
       /\ returned' = NoValue
       /\ UNCHANGED geometryVars

\* The pointerlockerror listener.
lockError ==
    LET r == emit(events, "lockerror", UndefinedVal, Seen(buttons, coords))
    IN /\ events' = r.events
       /\ calls' = r.calls
       /\ result' = "undefined"
       /\ call' = Op("lockerror", "", "", UndefinedVal)
       /\ UNCHANGED <<target, buttons, locked, platformVars, lastDown>>
       /\ diag' = Warnings(calls')
       /\ entry' = NoEntry
       /\ returned' = NoValue
       /\ UNCHANGED geometryVars

\* mouse.down(button) called by the application.
CallDown(button) ==
    /\ LET r == pressed(buttons, button)
       IN /\ result' = IF r.ret THEN "true" ELSE "false"
          /\ diag' = r.warn
    /\ call' = Lookup("down", button)
    /\ calls' = <<>>
    /\ entry' = NoEntry
    /\ returned' = NoValue
    /\ UNCHANGED <<target, events, buttons, locked, platformVars, lastDown,
                   geometryVars>>

\* A lookup that returns the value v and touches nothing.
Returns(v) ==
    /\ returned' = v
    /\ result' = "undefined"
    /\ calls' = <<>>
    /\ diag' = <<>>
    /\ entry' = NoEntry
    /\ UNCHANGED <<target, events, buttons, locked, platformVars, lastDown,
                   geometryVars>>

\* mouse.codeOf(name) called by the application with a string.
CallCodeOf(name) ==
    /\ call' = Lookup("codeOf", Str(name))
    /\ Returns(codeOf(name))

\* mouse.nameOf(code) called by the application with a number.
CallNameOf(code) ==
    /\ call' = Lookup("nameOf", Num(code))
    /\ Returns(nameOfValue(Num(code)))

\* The fields docMove assigns, from the event and the screen size.
DocCoords(c, pos, v) ==
    [c EXCEPT !.docPX = pos.pageX,
              !.docPY = pos.pageY,
              !.docX = Normalise(pos.pageX, v.w),
              !.docY = Normalise(pos.pageY, v.h),
              !.docDPX = pos.movementX,
              !.docDPY = pos.movementY,
              !.docDX = Normalise(pos.movementX, v.w),
              !.docDY = Normalise(pos.movementY, v.h)]

\* The fields targetMove assigns, from the event and the target's size.
TargetCoords(c, pos, v) ==
    [c EXCEPT !.targetPX = pos.clientX,
              !.targetPY = pos.clientY,
              !.targetX = Normalise(pos.clientX, v.tw),
              !.targetY = Normalise(pos.clientY, v.th)]

\* What a handler has made of the Mouse so far: the coordinate fields, the
\* listener table and the callbacks invoked.
Progress(c, evs, cs) == [coords |-> c, events |-> evs, calls |-> cs]

\* docMove as it would be if it fired move before assigning the fields.
docMoveEmitFirst(st, e, v) ==
    LET r == emit(st.events, "move", e, Seen(buttons, st.coords))
    IN Progress(DocCoords(st.coords, e.at, v), r.events, st.calls \o r.calls)

\* docMove(e), run from the state st of the Mouse.
docMove(st, e, v) ==
    LET c == DocCoords(st.coords, e.at, v)
        r == emit(st.events, "move", e, Seen(buttons, c))
    IN Progress(c, r.events, st.calls \o r.calls)

\* targetMove(e): it ends by calling docMove(e).
targetMove(st, e, v) ==
    docMove(Progress(TargetCoords(st.coords, e.at, v), st.events, st.calls), e, v)

\* The Mouse after a mousemove notification whose handlers left it as st.
Moved(scope, e, st) ==
    /\ coords' = st.coords
    /\ events' = st.events
    /\ calls' = st.calls
    /\ diag' = Warnings(st.calls)
    /\ result' = "undefined"
    /\ call' = Op("mousemove", scope, "", e)
    /\ entry' = NoEntry
    /\ returned' = NoValue
    /\ UNCHANGED <<target, buttons, locked, platformVars, lastDown, view, entries>>

\* A mousemove away from the target: only the document's listener runs.
MoveOverDocument(e) ==
    Moved("document", e, docMove(Progress(coords, events, <<>>), e, view))

\* A mousemove over the bound target: the target's listener (targetMove)
\* runs, then the event bubbles to the document, whose listener (docMove)
\* runs for the same event.
MoveOverTarget(e) ==
    /\ target # "undefined"
    /\ Moved("target", e,
             docMove(targetMove(Progress(coords, events, <<>>), e, view), e, view))

\* The window or the target is resized by the platform.
Resize(v) ==
    /\ view' = v
    /\ call' = Op("resize", "", "", UndefinedVal)
    /\ result' = "undefined"
    /\ calls' = <<>>
    /\ diag' = <<>>
    /\ entry' = NoEntry
    /\ returned' = NoValue
    /\ UNCHANGED <<target, events, buttons, locked, platformVars, lastDown,
                   coords, entries>>

\* a || b || c over the three spellings of an entry point: the first prefix
\* the object has it under, or undefined.
FirstAvailable(prefixes) ==
    IF "" \in prefixes THEN ""
    ELSE IF "moz" \in prefixes THEN "moz"
    ELSE IF "webkit" \in prefixes THEN "webkit"
    ELSE Undefined

RequestName(prefix) ==
    CASE prefix = ""       -> "requestPointerLock"
      [] prefix = "moz"    -> "mozRequestPointerLock"
      [] prefix = "webkit" -> "webkitRequestPointerLock"

ExitName(prefix) ==
    CASE prefix = ""       -> "exitPointerLock"
      [] prefix = "moz"    -> "mozExitPointerLock"
      [] prefix = "webkit" -> "webkitExitPointerLock"

\* target.requestLock and target.requestUnlock as the constructor sets them:
\* the name of the platform method, or undefined.
requestLock(en) ==
    IF FirstAvailable(en.request) = Undefined THEN Undefined
    ELSE RequestName(FirstAvailable(en.request))

requestUnlock(en) ==
    IF FirstAvailable(en.exit) = Undefined THEN Undefined
    ELSE ExitName(FirstAvailable(en.exit))

\* Calling the method fn of the target: undefined is not callable.
Request(fn) ==
    IF target # "undefined"
    THEN IF fn = Undefined
         THEN /\ result' = "threw"
              /\ entry' = NoEntry
              /\ diag' = <<>>
         ELSE /\ result' = "undefined"
              /\ entry' = [on |-> target, fn |-> fn]
              /\ diag' = <<>>
    ELSE /\ result' = "undefined"
         /\ entry' = NoEntry
         /\ diag' = <<TargetUndefined>>

\* lock as it would be if it did not test the target first.
lockUnguarded ==
    /\ IF target = "undefined"
       THEN result' = "threw" /\ entry' = NoEntry /\ diag' = <<>>
       ELSE Request(requestLock(entries))
    /\ call' = Op("lock", "", "", UndefinedVal)
    /\ calls' = <<>>
    /\ returned' = NoValue
    /\ UNCHANGED <<target, events, buttons, locked, platformVars, lastDown,
                   geometryVars>>

\* mouse.lockPointer() called by the application.
lock ==
    /\ Request(requestLock(entries))
    /\ call' = Op("lock", "", "", UndefinedVal)
    /\ calls' = <<>>
    /\ returned' = NoValue
    /\ UNCHANGED <<target, events, buttons, locked, platformVars, lastDown,
                   geometryVars>>

\* mouse.unlockPointer() called by the application.
unlock ==
    /\ Request(requestUnlock(entries))
    /\ call' = Op("unlock", "", "", UndefinedVal)
    /\ calls' = <<>>
    /\ returned' = NoValue
    /\ UNCHANGED <<target, events, buttons, locked, platformVars, lastDown,
                   geometryVars>>

(***************************************************************************)
(* Specifications.                                                         *)
(***************************************************************************)
\* Names the application passes to on() and off(): the fixed names and
\* some that are not.
BadNames == {"mousedown", "undefineddown", "constructor", "toString"}
Names == EventNames \cup BadNames

MouseDown == \E c \in Codes : docDown(MouseEvent("mousedown", c))
MouseUp == \E c \in Codes : docUp(MouseEvent("mouseup", c))

\* Button notifications only, any codes, any order.
NextPress == MouseDown \/ MouseUp
SpecPress == InitStandard /\ [][NextPress]_vars

\* The application subscribes and unsubscribes one plain function under any
\* name; no notification arrives.
SubscribeAny == \E e \in Names : CallOn(e, "f")
UnsubscribeAny == \E e \in Names, c \in {"f", "all"} : CallOff(e, c)
NextSub == SubscribeAny \/ UnsubscribeAny
SpecSub == InitPlain /\ [][NextSub]_vars

\* The codes of the button table, and the events a button's notifications
\* dispatch.
NamedCodes == {buttonCodes[k] : k \in DOMAIN buttonCodes}
ButtonEvents(b) == {nameOf(b) \o "down", "anydown", nameOf(b) \o "up", "anyup"}
AnyEvents == {"anydown", "anyup"}

\* The application listens to one named button at a time: f on the button's
\* own events, g on the generic ones.
Listening(b) == \A n \in DOMAIN events : events[n] # <<>> => n \in ButtonEvents(b)
HandlerFor(e) == IF e \in AnyEvents THEN "g" ELSE "f"
SubscribeButton ==
    \E b \in NamedCodes : \E e \in ButtonEvents(b) :
        Listening(b) /\ CallOn(e, HandlerFor(e))
UnsubscribeButton ==
    \E b \in NamedCodes : \E e \in ButtonEvents(b) : \E c \in {HandlerFor(e), "all"} :
        CallOff(e, c)

\* One button is held at a time (a down may repeat, an up may come for a
\* button that is not held).
PressOne == \E c \in Codes : buttons \subseteq {c} /\ docDown(MouseEvent("mousedown", c))
NextButtons == SubscribeButton \/ UnsubscribeButton \/ PressOne \/ MouseUp
SpecButtons == InitPlain /\ [][NextButtons]_vars

\* Dispatch with callbacks that call on() and off() while it runs: the
\* application listens to the left button's down events, and the left
\* button goes down and up.
EmitNames == {"leftdown", "anydown"}
SubscribeEmit == \E e \in EmitNames, c \in Callbacks : CallOn(e, c)
UnsubscribeEmit == \E e \in EmitNames, c \in Callbacks \cup {"all"} : CallOff(e, c)
LeftDown == docDown(MouseEvent("mousedown", 0)) /\ Subs(events') <= MaxGrown
LeftUp == docUp(MouseEvent("mouseup", 0)) /\ Subs(events') <= MaxGrown
NextEmit == SubscribeEmit \/ UnsubscribeEmit \/ LeftDown \/ LeftUp
SpecEmit == InitPlain /\ [][NextEmit]_vars

\* Pointer lock: any construction on any platform; the application listens
\* to the three lock events; the platform moves the lock between elements.
LockNames == {"lockchange", "lock", "unlock"}
SubscribeLock == \E e \in LockNames, c \in PlainCallbacks : CallOn(e, c)
UnsubscribeLock == \E e \in LockNames, c \in PlainCallbacks \cup {"all"} : CallOff(e, c)
PointerLockChange == \E cap \in Elements \cup {"null"} : lockChange(cap)
NextLock == SubscribeLock \/ UnsubscribeLock \/ PointerLockChange \/ lockError
SpecLock == Init /\ [][NextLock]_vars

\* Lookups: buttons of any code go down and up, and the application asks
\* for codes, names and pressed buttons, by name, by code and with undefined.
CodeInputs == Codes \cup {-1}
AskDown ==
    \/ \E n \in NameInputs : CallDown(Str(n))
    \/ \E c \in CodeInputs : CallDown(Num(c))
    \/ CallDown(NoValue)
AskCodeOf == \E n \in NameInputs : CallCodeOf(n)
AskNameOf == \E c \in CodeInputs : CallNameOf(c)
NextLookup == MouseDown \/ MouseUp \/ AskDown \/ AskCodeOf \/ AskNameOf
SpecLookup == InitPlain /\ [][NextLookup]_vars

\* Every operation together: a Mouse bound to the canvas; the application
\* subscribes plain and self-removing callbacks, looks buttons up, and the
\* platform delivers button, movement, capture-change and capture-error
\* notifications.
FrameNames == {"anydown", "move", "lockchange", "lockerror"}
FrameCallbacks == {"f", "unsub"}
FramePosition == Position(500, 250, 3, -2, 100, 50)
InitFrame ==
    ConstructOn("canvas", {""}, View(1000, 500, 200, 100), Entries({""}, {}))
SubscribeFrame == \E e \in FrameNames, c \in FrameCallbacks : CallOn(e, c)
UnsubscribeFrame ==
    \E e \in FrameNames \cup {"mousedown"}, c \in {"f", "all"} : CallOff(e, c)
FrameMove ==
    \/ MoveOverDocument(MoveEvent(FramePosition))
    \/ MoveOverTarget(MoveEvent(FramePosition))
FrameCapture == (\E cap \in {"canvas", "null"} : lockChange(cap)) \/ lockError
FrameLookup ==
    \/ CallDown(Str("Left")) \/ CallDown(Num(0))
    \/ CallCodeOf("LEFT") \/ CallNameOf(0)
NextFrame ==
    \/ SubscribeFrame \/ UnsubscribeFrame \/ LeftDown \/ LeftUp
    \/ FrameMove \/ FrameCapture \/ FrameLookup
SpecFrame == InitFrame /\ [][NextFrame]_vars

\* Pointer movement: with or without a target, on a screen of either size;
\* the application listens for move, the pointer moves over the target or
\* away from it and the window is resized.
Positions ==
    {Position(px, py, d[1], d[2], 100, 50) :
        px \in {0, 500, 1000}, py \in {250, 500}, d \in {<<0, 0>>, <<3, -2>>}}
InitMove ==
    \E t \in {"undefined", "canvas"}, v \in Views :
        ConstructOn(t, {""}, v, Entries({""}, {}))
SubscribeMove == \E c \in PlainCallbacks : CallOn("move", c)
UnsubscribeMove == \E c \in PlainCallbacks \cup {"all"} : CallOff("move", c)
MouseMove == \E pos \in Positions : MoveOverDocument(MoveEvent(pos))
TargetMouseMove == \E pos \in Positions : MoveOverTarget(MoveEvent(pos))
WindowResize == \E v \in Views : Resize(v)
NextMove ==
    SubscribeMove \/ UnsubscribeMove \/ MouseMove \/ TargetMouseMove \/ WindowResize
SpecMove == InitMove /\ [][NextMove]_vars

\* Capture requests: a Mouse without a target, or one whose target has any
\* of the entry points; the application listens for the lock events, presses
\* the left button and asks for the capture and its release.
InitCapture ==
    \/ ConstructOn("undefined", {""}, View(1000, 500, 200, 100), Entries({}, {}))
    \/ \E req \in SUBSET Prefixes, ex \in SUBSET Prefixes :
          ConstructOn("canvas", {""}, View(1000, 500, 200, 100), Entries(req, ex))
NextCapture ==
    SubscribeLock \/ UnsubscribeLock \/ LeftDown \/ LeftUp \/ lock \/ unlock
SpecCapture == InitCapture /\ [][NextCapture]_vars

(***************************************************************************)
(* What the claims speak of.                                               *)
(***************************************************************************)
\* The button names by code, as the documentation lists them.
DocumentedName(code) ==
    CASE code = 0 -> "left" [] code = 1 -> "middle" [] code = 2 -> "right"
      [] code = 3 -> "back" [] code = 4 -> "next"

\* The invocations a dispatch of `event` with argument arg makes when every
\* entry of its list is invoked once, in order.
InvocationsOf(evs, event, arg) ==
    [i \in 1..Len(evs[event]) |-> [event |-> event, fn |-> evs[event][i], arg |-> arg]]

\* The invocations made, without the state they saw.
Invoked(cs) ==
    [i \in 1..Len(cs) |-> [event |-> cs[i].event, fn |-> cs[i].fn, arg |-> cs[i].arg]]

\* s without the first occurrence of x.
RemoveFirst(s, x) ==
    LET i == CHOOSE k \in 1..Len(s) : s[k] = x /\ \A j \in 1..(k - 1) : s[j] # x
    IN SubSeq(s, 1, i - 1) \o SubSeq(s, i + 1, Len(s))

Occurs(s, x) == \E k \in 1..Len(s) : s[k] = x

IsButtonNote(c) == c.op \in {"mousedown", "mouseup"}
Suffix(c) == IF c.op = "mousedown" THEN "down" ELSE "up"

(***************************************************************************)
(* C1.  After any sequence of button-down and button-up notifications, of  *)
(* any codes, the pressed set is exactly the set of codes whose most       *)
(* recent notification was a down.                                         *)
(***************************************************************************)
C1_PressedIsLastDown == buttons = lastDown

\* A button without a name is held, a named one too, and the last
\* notification released a third.
C1_Witness ==
    /\ call.op = "mouseup"
    /\ call.e.button \notin buttons
    /\ \E c \in buttons : nameOf(c) = Undefined
    /\ \E c \in buttons : nameOf(c) # Undefined

(***************************************************************************)
(* C2.  on(eventName, callback) returns true and appends callback to the   *)
(* end of that event's list iff eventName is one of the 17 fixed names;    *)
(* for every other string it returns false, leaves every list unchanged    *)
(* and does not throw.                                                     *)
(***************************************************************************)
C2_OnSucceedsIffFixedName ==
    [][call'.op = "on" =>
         IF call'.name \in EventNames
         THEN /\ result' = "true"
              /\ events' = [events EXCEPT ![call'.name] = Append(@, call'.cb)]
         ELSE /\ result' = "false"
              /\ events' = events]_vars

(***************************************************************************)
(* C3.  The names that own a listener list are always exactly the 17       *)
(* fixed names: off(eventName, "all") returns true and empties the list    *)
(* iff eventName is a fixed name, and otherwise returns false and creates  *)
(* no list, so that on() for another name fails.                           *)
(***************************************************************************)
C3_OnlyFixedNamesOwnLists ==
    /\ DOMAIN events = EventNames
    /\ (call.op = "off" /\ call.cb = "all") =>
           /\ result = (IF call.name \in EventNames THEN "true" ELSE "false")
           /\ call.name \in EventNames => events[call.name] = <<>>
    /\ (call.op = "on" /\ call.name \notin EventNames) => result # "true"

(***************************************************************************)
(* C4.  off(eventName, callback), callback not "all", removes the first    *)
(* occurrence of callback from the event's list, keeps the order of the    *)
(* rest and returns true; if eventName is not a fixed name or callback is  *)
(* not in the list it returns false, does not throw and leaves every list  *)
(* unchanged.                                                              *)
(***************************************************************************)
C4_OffRemovesFirstOrFails ==
    [][(call'.op = "off" /\ call'.cb # "all") =>
         IF call'.name \in EventNames /\ Occurs(events[call'.name], call'.cb)
         THEN /\ result' = "true"
              /\ events' = [events EXCEPT
                               ![call'.name] = RemoveFirst(@, call'.cb)]
         ELSE /\ result' = "false"
              /\ events' = events]_vars

(***************************************************************************)
(* C5.  When a notification is dispatched and no registered callback       *)
(* changes the listener lists, every callback registered for a dispatched  *)
(* event is invoked once per registration, in registration order, with     *)
(* the raw payload, and no callback of another event is invoked.           *)
(***************************************************************************)
\* The events a button notification dispatches, by the documented names.
DispatchedBy(c) ==
    <<DocumentedName(c.e.button) \o Suffix(c), "any" \o Suffix(c)>>

NoMutator(evs, names) ==
    \A i \in 1..Len(names) : \A k \in 1..Len(evs[names[i]]) :
        evs[names[i]][k] \in PlainCallbacks

C5_EachRegistrationInvokedInOrder ==
    [][(IsButtonNote(call') /\ NoMutator(events, DispatchedBy(call'))) =>
         Invoked(calls') =
             InvocationsOf(events, DispatchedBy(call')[1], call'.e)
                 \o InvocationsOf(events, DispatchedBy(call')[2], call'.e)]_vars

\* A dispatch has invoked a callback registered twice for leftdown, twice.
C5_Witness ==
    /\ call.op = "mousedown"
    /\ Len(events["leftdown"]) = 2
    /\ events["leftdown"][1] = events["leftdown"][2]
    /\ events["leftdown"][1] \in PlainCallbacks
    /\ Len(calls) = 2
    /\ calls[1].fn = calls[2].fn

(***************************************************************************)
(* C6.  A callback that calls on() or off() for the event being            *)
(* dispatched does not alter the traversal in flight: the callbacks a      *)
(* dispatch invokes are exactly the entries the list held when it          *)
(* started, each once and in order.                                        *)
(***************************************************************************)
C6_DispatchInvokesSnapshot ==
    [][IsButtonNote(call') =>
         Invoked(calls') =
             InvocationsOf(events, DispatchedBy(call')[1], call'.e)
                 \o InvocationsOf(events, DispatchedBy(call')[2], call'.e)]_vars

(***************************************************************************)
(* C7.  On a button-down notification with a code in 0..4 the code is in   *)
(* the pressed set before any callback runs, then the listeners of the     *)
(* button's own down event run, then those of anydown, all with the raw    *)
(* payload; on a button-up the code is removed first, then the button's    *)
(* up listeners run, then those of anyup.                                  *)
(***************************************************************************)
\* The callbacks registered are plain functions, so the lists after the
\* notification are the lists before it.
C7_SetThenOwnThenAny ==
    (IsButtonNote(call) /\ call.e.button \in 0..4) =>
        /\ result = "undefined"
        /\ Invoked(calls) =
               InvocationsOf(events, DispatchedBy(call)[1], call.e)
                   \o InvocationsOf(events, DispatchedBy(call)[2], call.e)
        /\ \A i \in 1..Len(calls) :
               (call.e.button \in calls[i].buttons) = (call.op = "mousedown")
        /\ (call.e.button \in buttons) = (call.op = "mousedown")

\* The right button went down with a listener on rightdown and one on anydown.
C7_Witness ==
    /\ call.op = "mousedown"
    /\ call.e.button = 2
    /\ Len(calls) = 2
    /\ calls[1].event = "rightdown"
    /\ calls[2].event = "anydown"
    /\ 2 \in calls[1].buttons

(***************************************************************************)
(* C8.  A button notification whose code has no name (outside 0..4) is     *)
(* handled without raising an error: the pressed set is updated and the    *)
(* anydown / anyup listeners are invoked with the raw payload.             *)
(***************************************************************************)
C8_UnnamedCodeStillFiresAny ==
    (IsButtonNote(call) /\ call.e.button \notin 0..4) =>
        /\ result # "threw"
        /\ (call.e.button \in buttons) = (call.op = "mousedown")
        /\ Invoked(calls) = InvocationsOf(events, "any" \o Suffix(call), call.e)

(***************************************************************************)
(* C9.  On every capture-state-change notification the lockchange          *)
(* listeners are invoked first, with the new lock boolean, and then the    *)
(* listeners of exactly one of lock / unlock with no payload: lock iff     *)
(* the boolean is true.                                                    *)
(***************************************************************************)
C9_LockchangeThenLockOrUnlock ==
    call.op = "lockchange" =>
        /\ call.e.kind = "boolean"
        /\ Invoked(calls) =
               InvocationsOf(events, "lockchange", call.e)
                   \o InvocationsOf(events, IF call.e.bool THEN "lock" ELSE "unlock",
                                    UndefinedVal)

\* The lock was taken with a listener on lockchange and one on lock.
C9_Witness ==
    /\ call.op = "lockchange"
    /\ call.e.bool
    /\ captured = target
    /\ Len(calls) = 2
    /\ calls[1].event = "lockchange"
    /\ calls[1].arg = BoolVal(TRUE)
    /\ calls[2].event = "lock"
    /\ calls[2].arg = UndefinedVal

(***************************************************************************)
(* C10.  The instance's readable lock state (mouse.locked) is false after  *)
(* construction and, after every capture-state-change notification, true   *)
(* iff the captured element is the bound target; it equals the boolean     *)
(* passed to the lockchange callbacks.                                     *)
(***************************************************************************)
\* Read leniently: any value but true counts as false.
C10_LockedTracksCapture ==
    /\ (locked = BoolVal(TRUE)) = (captured = target)
    /\ call.op = "lockchange" => (locked = BoolVal(TRUE)) = call.e.bool

FirstEntryPoint(op, en) ==
    LET have == IF op = "lock" THEN en.request ELSE en.exit
        stem == IF op = "lock" THEN "equestPointerLock" ELSE "xitPointerLock"
        first == IF op = "lock" THEN "r" ELSE "e"
        First == IF op = "lock" THEN "R" ELSE "E"
    IN IF "" \in have THEN first \o stem
       ELSE IF "moz" \in have THEN "moz" \o First \o stem
       ELSE IF "webkit" \in have THEN "webkit" \o First \o stem
       ELSE ""

C12_BoundTargetNeverThrows ==
    (call.op \in {"lock", "unlock"} /\ target # "undefined") =>
        /\ result # "threw"
        /\ diag = <<>>
        /\ entry = IF FirstEntryPoint(call.op, entries) = "" THEN NoEntry
                   ELSE [on |-> target, fn |-> FirstEntryPoint(call.op, entries)]

(***************************************************************************)
(* C13.  Each pointer-movement notification invokes the move listeners     *)
(* exactly once, at target scope as at document scope: a movement over the *)
(* bound target sets the target position and the document position and     *)
(* fires move once, not twice.                                             *)
(***************************************************************************)
C13_MoveFiresOncePerNotification ==
    call.op = "mousemove" =>
        /\ Invoked(calls) = InvocationsOf(events, "move", call.e)
        /\ coords.docPX = call.e.at.pageX /\ coords.docPY = call.e.at.pageY
        /\ call.name = "target" =>
               coords.targetPX = call.e.at.clientX /\ coords.targetPY = call.e.at.clientY

(***************************************************************************)
(* C14.  After a move notification with pixel position (px, py) and        *)
(* movement (mx, my) on a screen of W x H pixels, docPX = px, docPY = py,  *)
(* docDPX = mx, docDPY = my, docX = (px / W - 0.5) * 2,                    *)
(* docY = (py / H - 0.5) * 2, docDX = (mx / W - 0.5) * 2 and               *)
(* docDY = (my / H - 0.5) * 2, with the dimensions current at that         *)
(* notification (at 1000 x 500, (500, 250) gives (0, 0) and (1000, 500)    *)
(* gives (1, 1)); the move callbacks already see these values.             *)
(***************************************************************************)
\* Whether x is the fraction n / d (d positive).
IsFraction(x, n, d) == x.den > 0 /\ x.num * d = n * x.den

DocumentedCode ==
    [left |-> 0, middle |-> 1, right |-> 2, back |-> 3, next |-> 4,
     LEFT |-> 0, Left |-> 0, Middle |-> 1, RIGHT |-> 2, Back |-> 3, NeXt |-> 4]

C15_CodeOfAndNameOfAreInverse ==
    /\ call.op = "codeOf" =>
           IF call.arg.str \in DOMAIN DocumentedCode
           THEN /\ returned = Num(DocumentedCode[call.arg.str])
                /\ nameOfValue(returned) =
                       Str(DocumentedName(DocumentedCode[call.arg.str]))
           ELSE returned = NoValue
    /\ call.op = "nameOf" =>
           IF call.arg.num \in 0..4
           THEN /\ returned = Str(DocumentedName(call.arg.num))
                /\ codeOf(returned.str) = call.arg
           ELSE returned = NoValue

(***************************************************************************)
(* C18.  down(button) returns true iff the code the button resolves to is  *)
(* in the pressed set: in every reachable state down(n) = down(codeOf(n))  *)
(* for every valid name n in any letter case; for a name that resolves to  *)
(* no code it returns false; it never throws and changes no state.         *)
(***************************************************************************)
C18_DownTestsResolvedCode ==
    /\ [](\A n \in DOMAIN DocumentedCode :
             /\ pressed(buttons, Str(n)).ret = pressed(buttons, codeOf(n)).ret
             /\ pressed(buttons, Str(n)).ret = (DocumentedCode[n] \in buttons))
    /\ [][call'.op = "down" =>
            /\ result' = IF call'.arg.kind = "string"
                         THEN IF call'.arg.str \in DOMAIN DocumentedCode
                              THEN IF DocumentedCode[call'.arg.str] \in buttons
                                   THEN "true" ELSE "false"
                              ELSE "false"
                         ELSE IF call'.arg.kind = "number" /\ call'.arg.num \in buttons
                              THEN "true" ELSE "false"
            /\ calls' = <<>>
            /\ UNCHANGED <<target, events, buttons, locked, coords, captured>>]_vars

\* down("NeXt") has returned true while an unnamed button was held too.
C18_Witness ==
    /\ call.op = "down"
    /\ call.arg = Str("NeXt")
    /\ result = "true"
    /\ buttons = {4, 5}

(***************************************************************************)
(* C16.  For any fixed event name and any list contents, off(event, "all") *)
(* returns true, leaves that list empty and every other list as it was,    *)
(* and a dispatch of that event that starts right afterwards, before any   *)
(* on(), invokes no callback for it.                                       *)
(***************************************************************************)
C16_OffAllEmptiesOnlyThatList ==
    [][/\ (call'.op = "off" /\ call'.cb = "all" /\ call'.name \in EventNames) =>
              /\ result' = "true"
              /\ events' = [events EXCEPT ![call'.name] = <<>>]
       /\ (/\ call.op = "off" /\ call.cb = "all" /\ call.name \in EventNames
           /\ IsButtonNote(call')) =>
              \A i \in 1..Len(calls') : calls'[i].event # call.name]_vars

\* off("leftdown", "all") has emptied the list of leftdown while anydown
\* keeps its callbacks.
C16_Witness ==
    /\ call.op = "off" /\ call.cb = "all" /\ call.name = "leftdown"
    /\ result = "true"
    /\ events["leftdown"] = <<>>
    /\ Len(events["anydown"]) = 2

(***************************************************************************)
(* C17.  For any fixed event name, any list contents (lists that already   *)
(* hold the callback included) and any callback f, on(event, f) followed   *)
(* at once by off(event, f) both return true and leave the list as long as *)
(* it was before the on().                                                 *)
(***************************************************************************)
C17_OnThenOffKeepsLength ==
    [][/\ (call'.op = "on" /\ call'.name \in EventNames) =>
              /\ result' = "true"
              /\ Len(events'[call'.name]) = Len(events[call'.name]) + 1
       /\ (/\ call.op = "on" /\ call.name \in EventNames
           /\ call'.op = "off" /\ call'.name = call.name /\ call'.cb = call.cb) =>
              /\ result' = "true"
              /\ Len(events'[call'.name]) = Len(events[call'.name]) - 1
              /\ \A n \in EventNames \ {call'.name} : events'[n] = events[n]]_vars

\* off("leftdown", "f") has removed one of two registrations of f.
C17_Witness ==
    /\ call.op = "off" /\ call.cb = "f" /\ call.name = "leftdown"
    /\ result = "true"
    /\ events["leftdown"] = <<"f">>
    /\ Subs(events) = 1

(***************************************************************************)
(* C19.  When the Mouse is constructed without a target argument, the      *)
(* capture target defaults to document.body: a lock request made           *)
(* afterwards is issued against document.body.                             *)
(***************************************************************************)
C19_LockDefaultsToBody ==
    (call.op = "lock" /\ target = "undefined") =>
        (entry.on = "body" /\ entry.fn # "")

(***************************************************************************)
(* C20.  A Mouse constructed without a target never reports the pointer    *)
(* as locked: at every capture-state-change notification, whatever element *)
(* (or none) holds the capture and whichever vendor accessors the document *)
(* lacks, lockchange is fired with false, and unlock, never lock, is       *)
(* fired.                                                                  *)
(***************************************************************************)
C20_NoTargetNeverLocked ==
    (call.op = "lockchange" /\ target = "undefined") =>
        /\ call.e = BoolVal(FALSE)
        /\ \A i \in 1..Len(calls) :
               /\ calls[i].event \in {"lockchange", "unlock"}
               /\ calls[i].event = "lockchange" => calls[i].arg = BoolVal(FALSE)

(***************************************************************************)
(* C21.  Each operation changes only its own part of the state.  As        *)
(* worded: button-down/up notifications leave every coordinate field and   *)
(* every listener list unchanged; move notifications leave the pressed set *)
(* and the listener lists unchanged; capture-state-change and              *)
(* capture-error notifications leave the coordinates, the pressed set and  *)
(* the listener lists unchanged; on/off (successful or failed) and         *)
(* down/codeOf/nameOf leave the coordinates and the pressed set unchanged. *)
(***************************************************************************)
IsCaptureNote(c) == c.op \in {"lockchange", "lockerror"}
IsQuery(c) == c.op \in {"on", "off", "down", "codeOf", "nameOf"}

\* Whether every callback the operation invoked is one that does not call
\* on() or off() itself.
OnlyPlainInvoked(cs) == \A i \in 1..Len(cs) : cs[i].fn \in PlainCallbacks

C21_EveryNotificationKeepsLists ==
    [][/\ IsButtonNote(call') => (coords' = coords /\ events' = events)
       /\ call'.op = "mousemove" => (buttons' = buttons /\ events' = events)
       /\ IsCaptureNote(call') =>
              (coords' = coords /\ buttons' = buttons /\ events' = events)
       /\ IsQuery(call') => (coords' = coords /\ buttons' = buttons)]_vars

\* The same, where the listener lists stay as they were unless a callback
\* the notification invoked called on() or off() itself.
C21_OperationsKeepTheirFrame ==
    [][/\ IsButtonNote(call') =>
              /\ coords' = coords
              /\ OnlyPlainInvoked(calls') => events' = events
       /\ call'.op = "mousemove" =>
              /\ buttons' = buttons
              /\ OnlyPlainInvoked(calls') => events' = events
       /\ IsCaptureNote(call') =>
              /\ coords' = coords /\ buttons' = buttons
              /\ OnlyPlainInvoked(calls') => events' = events
       /\ IsQuery(call') => (coords' = coords /\ buttons' = buttons)]_vars

\* A capture error has been delivered to a plain listener while the left
\* button was held, the pointer had moved over the target and a
\* self-removing callback was registered for another event.
C21_Witness ==
    /\ call.op = "lockerror"
    /\ calls # <<>> /\ OnlyPlainInvoked(calls)
    /\ buttons = {0}
    /\ coords.docPX = 500 /\ coords.targetPX = 100
    /\ events["move"] = <<"unsub">>

=============================================================================
